---- MODULE Spec2Model ----
(***************************************************************************)
(* Model of packages/astro/src/core/endpoint/index.ts: createAPIContext,   *)
(* ResponseWithEncoding and callEndpoint.                                   *)
(*                                                                         *)
(* JavaScript values are modelled as follows.                              *)
(*  - a string body is the sequence of its code points, a byte body the    *)
(*    sequence of its bytes;                                               *)
(*  - a header value is a string, Absent when Headers.get returns null;    *)
(*  - the legacy object's `encoding` is NoProperty when the object has no  *)
(*    such property, UndefinedValue when the property holds undefined,     *)
(*    and otherwise one of the BufferEncoding names;                       *)
(*  - a value assigned to locals is a record [type, by]: its ECMAScript    *)
(*    kind and the context through which it was assigned.                  *)
(***************************************************************************)
EXTENDS Naturals, Sequences, FiniteSets, TLC

\* ------------------------------------------------------------------ bounds
\* Longest body (code points of a string, bytes of a Uint8Array) a handler returns.
MaxBodyLen == 2
\* How many times a middleware chain may call its continuation.
MaxNextCalls == 2
\* Concurrent callEndpoint invocations in ConcurrentSpec.
NumInvocations == 2

\* --------------------------------------------------------------- JS values
Absent == "<absent>"
NoProperty == "<no property>"
UndefinedValue == "<undefined>"

BoundedSeq(S, n) == UNION {[1..k -> S] : k \in 0..n}

\* 'a' and the euro sign: 1 and 3 bytes in UTF-8, 1 and 1 in latin1, 2 and 2 in
\* UTF-16.
CodePoints == {97, 8364}
ByteSamples == {255}

StringBodies == {[kind |-> "string", data |-> s] : s \in BoundedSeq(CodePoints, MaxBodyLen)}
ByteBodies == {[kind |-> "Uint8Array", data |-> s] : s \in BoundedSeq(ByteSamples, MaxBodyLen)}

\* BufferEncoding names a legacy object may declare (a sample of the type).
BufferEncodings == {"utf8", "utf-8", "latin1", "utf16le"}
LegacyEncodings == {NoProperty, UndefinedValue} \cup BufferEncodings

\* JavaScript truthiness of a possibly missing string.
Truthy(s) == s \notin {Absent, NoProperty, UndefinedValue, ""}

\* `x == null`: null or undefined (a missing property reads as undefined).
IsNullish(s) == s \in {NoProperty, UndefinedValue}

\* --------------------------------------------------------------- encoders
Utf8Bytes(cp) ==
    IF cp < 128 THEN <<cp>>
    ELSE IF cp < 2048 THEN <<192 + (cp \div 64), 128 + (cp % 64)>>
    ELSE <<224 + (cp \div 4096), 128 + ((cp \div 64) % 64), 128 + (cp % 64)>>

Latin1Bytes(cp) == <<cp % 256>>

Utf16leBytes(cp) == <<cp % 256, cp \div 256>>

\* The bytes of one code point in a named encoding; an undefined encoding is UTF-8.
CharBytes(cp, encoding) ==
    IF IsNullish(encoding) \/ encoding \in {"utf8", "utf-8"} THEN Utf8Bytes(cp)
    ELSE IF encoding = "latin1" THEN Latin1Bytes(cp)
    ELSE Utf16leBytes(cp)

RECURSIVE EncodeString(_, _)
EncodeString(str, encoding) ==
    IF str = <<>> THEN <<>>
    ELSE CharBytes(Head(str), encoding) \o EncodeString(Tail(str), encoding)

\* encoder.encode(string): the web TextEncoder, UTF-8 only.
encoder_encode(str) == EncodeString(str, "utf-8")

\* Buffer.from(string, encoding)
Buffer_from(str, encoding) == EncodeString(str, encoding)

\* mime.getType(route): null when the extension is unknown.
Routes == {"/data.json", "/api/ping"}
mime_getType(route) == IF route = "/data.json" THEN "application/json" ELSE Absent

\* ---------------------------------------------------------------- responses
HeaderNames == {"Content-Type", "Content-Length", "X-Astro-Encoding"}
EmptyHeaders == [h \in HeaderNames |-> Absent]

\* A native Response: `obj` is the object's identity, `setCookie` the list of
\* its Set-Cookie header values.
MkResponse(obj, status, headers, setCookie, body) ==
    [shape |-> "Response", obj |-> obj, status |-> status, headers |-> headers,
     setCookie |-> setCookie, body |-> body]

NoResponse == [shape |-> "none"]

\* new ResponseWithEncoding(body, init, encoding)
ResponseWithEncoding(obj, status, headers, body, encoding) ==
    MkResponse(obj, status, [headers EXCEPT !["X-Astro-Encoding"] = encoding], <<>>, body)

\* context.redirect(path, status): the body is null, Location is not among the
\* headers callEndpoint reads.
redirect(obj, status) ==
    MkResponse(obj, IF status = 0 THEN 302 ELSE status, EmptyHeaders, <<>>,
               [kind |-> "null", data |-> <<>>])

\* A cookie set on a jar: its name and the context whose jar holds it.
CookieNames == {"sid", "theme"}

\* cookies.set(name, ...) on a jar: one entry per name.
CookiesSet(jar, entry) ==
    IF \E k \in 1..Len(jar) : jar[k].name = entry.name THEN jar ELSE Append(jar, entry)

\* attachCookiesToResponse(response, cookies): the jar's entries are merged into
\* the response's Set-Cookie headers.
attachCookiesToResponse(response, cookies) ==
    [response EXCEPT !.setCookie = @ \o cookies]

\* --------------------------------------------------------------- log events
Event(e, obj, ctx) == [e |-> e, obj |-> obj, ctx |-> ctx]
Warn(channel, what) == Event("warn", channel \o ":" \o what, 0)
IsWarning(ev) == ev.e = "warn"
Warnings(log) == SelectSeq(log, IsWarning)
Count(log, e) == Len(SelectSeq(log, LAMBDA ev : ev.e = e))
WarnCount(log, what) == Len(SelectSeq(log, LAMBDA ev : ev = Warn("ssr", what) \/ ev = Warn("astro", what)))

\* ------------------------------------------------- callEndpoint, lines 130-216
\* Variant: the route's prerender flag is not consulted.
isEndpointSSR_IgnoresPrerender(ssr, route) == ssr

\* const isEndpointSSR = env.ssr && !ctx.route?.prerender
isEndpointSSR(ssr, route) == ssr /\ ~route.prerender

\* Variant: the warning is not gated by isEndpointSSR.
NativeWarnings_AnyMode(response, endpointSSR) ==
    IF Truthy(response.headers["X-Astro-Encoding"])
    THEN <<Warn("ssr", "ResponseWithEncoding")>>
    ELSE <<>>

\* Lines 133-139: the warning of the native-Response branch.
NativeWarnings(response, endpointSSR) ==
    IF endpointSSR /\ Truthy(response.headers["X-Astro-Encoding"])
    THEN <<Warn("ssr", "ResponseWithEncoding")>>
    ELSE <<>>

\* Lines 147-169: the warnings of the legacy-object branch.
LegacyWarnings(response, endpointSSR) ==
    <<Warn("astro", "deprecated")>>
    \o (IF endpointSSR /\ response.hasHeaders THEN <<Warn("ssr", "headers")>> ELSE <<>>)
    \o (IF endpointSSR /\ Truthy(response.encoding) THEN <<Warn("ssr", "encoding")>> ELSE <<>>)

\* Lines 172-181: Content-Type from the route, X-Astro-Encoding from the object.
LegacyHeaders(response, route) ==
    LET found == mime_getType(route.route)
        mimeType == IF Truthy(found) THEN found ELSE "text/plain"
        h1 == [EmptyHeaders EXCEPT !["Content-Type"] = mimeType \o ";charset=utf-8"]
    IN  IF Truthy(response.encoding)
        THEN [h1 EXCEPT !["X-Astro-Encoding"] = response.encoding]
        ELSE h1

\* Variant: Content-Length is the length of the string, not of its bytes.
ResolveBody_StringLength(response, hasBuffer) ==
    IF response.body.kind = "Uint8Array"
    THEN [body |-> response.body, length |-> ToString(Len(response.body.data))]
    ELSE IF hasBuffer
    THEN [body |-> [kind |-> "Uint8Array",
                    data |-> Buffer_from(response.body.data, response.encoding)],
          length |-> ToString(Len(response.body.data))]
    ELSE IF IsNullish(response.encoding) \/ response.encoding = "utf8"
                                         \/ response.encoding = "utf-8"
    THEN [body |-> [kind |-> "Uint8Array", data |-> encoder_encode(response.body.data)],
          length |-> ToString(Len(response.body.data))]
    ELSE [body |-> response.body, length |-> Absent]

\* Lines 184-209: the body and, when it can be computed, its Content-Length.
ResolveBody(response, hasBuffer) ==
    IF response.body.kind = "Uint8Array"
    THEN [body |-> response.body, length |-> ToString(Len(response.body.data))]
    ELSE IF hasBuffer
    THEN LET b == Buffer_from(response.body.data, response.encoding)
         IN  [body |-> [kind |-> "Uint8Array", data |-> b], length |-> ToString(Len(b))]
    ELSE IF IsNullish(response.encoding) \/ response.encoding = "utf8"
                                         \/ response.encoding = "utf-8"
    THEN LET b == encoder_encode(response.body.data)
         IN  [body |-> [kind |-> "Uint8Array", data |-> b], length |-> ToString(Len(b))]
    ELSE [body |-> response.body, length |-> Absent]

\* Variant: the cookies are attached a second time before the return.
NormalizeNative_AttachTwice(response, ctx, cookies, endpointSSR) ==
    [response |-> attachCookiesToResponse(attachCookiesToResponse(response, cookies), cookies),
     log |-> NativeWarnings(response, endpointSSR)
             \o <<Event("attachCookiesToResponse", response.obj, ctx),
                  Event("attachCookiesToResponse", response.obj, ctx),
                  Event("return", response.obj, 0)>>]

\* Lines 132-142: the raw result is a native Response.
NormalizeNative(response, ctx, cookies, endpointSSR) ==
    [response |-> attachCookiesToResponse(response, cookies),
     log |-> NativeWarnings(response, endpointSSR)
             \o <<Event("attachCookiesToResponse", response.obj, ctx),
                  Event("return", response.obj, 0)>>]

\* Variant: the encoding marker is left out when the endpoint is server-rendered.
NormalizeLegacy_NoMarkerInSSR(response, ctx, cookies, endpointSSR, route, hasBuffer, newObj) ==
    LET resolved == ResolveBody(response, hasBuffer)
        h0 == LegacyHeaders(response, route)
        h1 == IF endpointSSR THEN [h0 EXCEPT !["X-Astro-Encoding"] = Absent] ELSE h0
        headers == IF resolved.length = Absent THEN h1
                   ELSE [h1 EXCEPT !["Content-Length"] = resolved.length]
        built == MkResponse(newObj, 200, headers, <<>>, resolved.body)
    IN  [response |-> attachCookiesToResponse(built, cookies),
         log |-> LegacyWarnings(response, endpointSSR)
                 \o <<Event("new Response", newObj, 0),
                      Event("attachCookiesToResponse", newObj, ctx),
                      Event("return", newObj, 0)>>]

\* Lines 144-216: the raw result is a legacy object.
NormalizeLegacy(response, ctx, cookies, endpointSSR, route, hasBuffer, newObj) ==
    LET resolved == ResolveBody(response, hasBuffer)
        h1 == LegacyHeaders(response, route)
        headers == IF resolved.length = Absent THEN h1
                   ELSE [h1 EXCEPT !["Content-Length"] = resolved.length]
        built == MkResponse(newObj, 200, headers, <<>>, resolved.body)
    IN  [response |-> attachCookiesToResponse(built, cookies),
         log |-> LegacyWarnings(response, endpointSSR)
                 \o <<Event("new Response", newObj, 0),
                      Event("attachCookiesToResponse", newObj, ctx),
                      Event("return", newObj, 0)>>]

\* Lines 130-216: everything callEndpoint does once the raw result is known.
Normalize(response, ctx, cookies, ssr, route, hasBuffer, newObj) ==
    IF response.shape = "Response"
    THEN NormalizeNative(response, ctx, cookies, isEndpointSSR(ssr, route))
    ELSE NormalizeLegacy(response, ctx, cookies, isEndpointSSR(ssr, route), route,
                         hasBuffer, newObj)

\* ------------------------------------------------------------------- state
Requests == {"reqA", "reqB"}
Invocations == 1..NumInvocations

VARIABLES
    inv,        \* inv[i]: the state of the i-th callEndpoint invocation
    reqProps,   \* reqProps[q]: the symbol-keyed properties of request object q
    hasBuffer   \* typeof Buffer !== 'undefined' && Buffer.from

vars == <<inv, reqProps, hasBuffer>>

\* A value that may be assigned to context.locals.
JsTypes == {"undefined", "null", "boolean", "number", "string", "symbol", "bigint",
            "function", "array", "object"}
LocalsValue(type, by) == [type |-> type, by |-> by]
UndefinedLocals == LocalsValue("undefined", 0)

\* The typeof operator.
TypeOf(val) ==
    IF val.type \in {"null", "array", "object"} THEN "object" ELSE val.type

NoContext == [id |-> 0, request |-> "", site |-> UndefinedValue, adapterName |-> UndefinedValue]

NoOp == [op |-> "none", arg |-> UndefinedLocals, before |-> UndefinedLocals,
         after |-> UndefinedLocals, threw |-> "", message |-> "", value |-> ""]

IdleInvocation ==
    [pc |-> "idle", ssr |-> FALSE, route |-> [route |-> "/api/ping", prerender |-> FALSE],
     onRequest |-> FALSE, context |-> NoContext, cookies |-> <<>>,
     handlerValue |-> NoResponse, awaited |-> NoResponse, raw |-> NoResponse, nextCalls |-> 0, handlerCalls |-> 0,
     mwCtx |-> 0, handlerCtx |-> 0, log |-> <<>>, result |-> NoResponse,
     thrown |-> "", error |-> "", lastOp |-> NoOp]

\* ------------------------------------------------- createAPIContext, lines 36-91
\* new URL(site) throws a TypeError on a string that is no absolute URL.
Sites == {UndefinedValue, "https://example.com", "not a url"}
InvalidURL(site) == site = "not a url"

\* Lines 43-74 and 90: the context object; its accessors close over `request` and
\* `adapterName`. Its cookie jar is new (line 44) and belongs to this context alone.
createAPIContext(id, request, site, adapterName) ==
    [id |-> id, request |-> request,
     site |-> IF Truthy(site) THEN site ELSE UndefinedValue,
     adapterName |-> adapterName]

\* Variant: the marker is tested for truthiness instead of presence.
clientAddress_TruthyMarker(context, props) ==
    IF ~Truthy(props[context.request].clientAddress)
    THEN IF Truthy(context.adapterName)
         THEN [NoOp EXCEPT !.op = "clientAddress", !.threw = "ClientAddressNotAvailable",
                           !.message = context.adapterName]
         ELSE [NoOp EXCEPT !.op = "clientAddress",
                           !.threw = "StaticClientAddressNotAvailable"]
    ELSE [NoOp EXCEPT !.op = "clientAddress",
                      !.value = props[context.request].clientAddress]

\* Lines 60-73: get clientAddress(). `message` is the adapter name handed to
\* ClientAddressNotAvailable.message.
clientAddress(context, props) ==
    IF props[context.request].clientAddress = NoProperty
    THEN IF Truthy(context.adapterName)
         THEN [NoOp EXCEPT !.op = "clientAddress", !.threw = "ClientAddressNotAvailable",
                           !.message = context.adapterName]
         ELSE [NoOp EXCEPT !.op = "clientAddress",
                           !.threw = "StaticClientAddressNotAvailable"]
    ELSE [NoOp EXCEPT !.op = "clientAddress",
                      !.value = props[context.request].clientAddress]

\* Lines 79-81: get locals().
getLocals(context, props) == props[context.request].locals

\* Lines 82-88: set locals(val): whether the setter throws.
LocalsRejected(val) == TypeOf(val) # "object"

\* Variant: locals are kept under one key shared by every request.
setLocals_SharedKey(context, props, val) ==
    IF LocalsRejected(val) THEN props
    ELSE [q \in DOMAIN props |-> [props[q] EXCEPT !.locals = val]]

\* Lines 82-88: set locals(val): the request's properties afterwards.
setLocals(context, props, val) ==
    IF LocalsRejected(val) THEN props
    ELSE [props EXCEPT ![context.request].locals = val]

\* ------------------------------------------------- callEndpoint, lines 102-128
\* Variant: a thrown error is caught and answered with a default response.
Propagate_DefaultResponse(r, by, e) ==
    [r EXCEPT !.pc = "returned", !.thrown = by \o ":" \o e,
              !.result = MkResponse("constructed", 500, EmptyHeaders, <<>>,
                                    [kind |-> "null", data |-> <<>>])]

\* Lines 116-128 hold no try/catch: what the awaited call throws is what
\* callEndpoint rejects with.
Propagate(r, by, e) == [r EXCEPT !.pc = "failed", !.thrown = by \o ":" \o e, !.error = e]

\* Lines 122-124 and 127: renderEndpoint(mod, context, ...) starts the handler.
renderEndpoint(r) ==
    [r EXCEPT !.pc = "handler", !.handlerCalls = @ + 1, !.handlerCtx = r.context.id,
              !.log = Append(@, Event("renderEndpoint", "", r.context.id))]

\* Variant: the handler is started before the chain is called.
Dispatch_RendersFirst(r) ==
    IF r.onRequest
    THEN [renderEndpoint(r) EXCEPT !.pc = "middleware", !.mwCtx = r.context.id,
                   !.log = Append(@, Event("callMiddleware", "", r.context.id))]
    ELSE renderEndpoint(r)

\* Lines 117-128: the chain is called when onRequest is given, else the handler.
Dispatch(r) ==
    IF r.onRequest
    THEN [r EXCEPT !.pc = "middleware", !.mwCtx = r.context.id,
                   !.log = Append(@, Event("callMiddleware", "", r.context.id))]
    ELSE renderEndpoint(r)

\* `response = await ...` (lines 118, 127) has resolved with `response`, recorded
\* by the caller in r.awaited; lines 130-216 then run to the return.
Finish(r, response, buffer) ==
    LET n == Normalize(response, r.context.id, r.cookies, r.ssr, r.route, buffer,
                       "constructed")
    IN  [r EXCEPT !.pc = "returned", !.raw = response, !.result = n.response,
                  !.log = @ \o n.log]

\* callEndpoint(mod, env, ctx, onRequest) up to its first await.
callEndpoint(i, env, route, request, onRequest) ==
    /\ inv[i].pc = "idle"
    /\ LET r == [inv[i] EXCEPT !.ssr = env.ssr, !.route = route, !.onRequest = onRequest,
                               !.log = <<Event("createAPIContext", "", i)>>]
       IN  inv' = [inv EXCEPT ![i] =
                     IF InvalidURL(env.site)
                     THEN Propagate(r, "createAPIContext", "TypeError: Invalid URL")
                     ELSE Dispatch([r EXCEPT !.context =
                              createAPIContext(i, request, env.site, env.adapterName)])]
    /\ UNCHANGED <<reqProps, hasBuffer>>

Running(i) == inv[i].pc \in {"middleware", "handler"}

\* The middleware or the handler calls context.cookies.set(name, ...).
SetCookie(i, name) ==
    /\ Running(i)
    /\ inv' = [inv EXCEPT ![i].cookies =
                 CookiesSet(@, [name |-> name, ctx |-> inv[i].context.id])]
    /\ UNCHANGED <<reqProps, hasBuffer>>

\* The middleware or the handler assigns context.locals = val.
SetLocals(i, val) ==
    /\ Running(i)
    /\ reqProps' = setLocals(inv[i].context, reqProps, val)
    /\ inv' = [inv EXCEPT ![i].lastOp =
                 [NoOp EXCEPT !.op = "setLocals", !.arg = val,
                              !.before = getLocals(inv[i].context, reqProps),
                              !.after = getLocals(inv[i].context, reqProps'),
                              !.threw = IF LocalsRejected(val) THEN "LocalsNotAnObject"
                                        ELSE ""]]
    /\ UNCHANGED hasBuffer

\* The middleware or the handler reads context.locals.
ReadLocals(i) ==
    /\ Running(i)
    /\ inv' = [inv EXCEPT ![i].lastOp =
                 [NoOp EXCEPT !.op = "getLocals",
                              !.after = getLocals(inv[i].context, reqProps)]]
    /\ UNCHANGED <<reqProps, hasBuffer>>

\* The middleware or the handler reads context.clientAddress.
ReadClientAddress(i) ==
    /\ Running(i)
    /\ inv' = [inv EXCEPT ![i].lastOp = clientAddress(inv[i].context, reqProps)]
    /\ UNCHANGED <<reqProps, hasBuffer>>

\* The chain calls the continuation of lines 122-124; handlerValue is the value
\* of the latest call, pending until the handler resolves.
MiddlewareCallsNext(i) ==
    /\ inv[i].pc = "middleware"
    /\ inv[i].nextCalls < MaxNextCalls
    /\ inv' = [inv EXCEPT ![i] = renderEndpoint([inv[i] EXCEPT !.nextCalls = @ + 1,
                                                             !.handlerValue = NoResponse])]
    /\ UNCHANGED <<reqProps, hasBuffer>>

\* The handler resolves with `value`: to the chain when there is one, else to
\* line 127, after which lines 130-216 run.
HandlerReturns(i, value) ==
    /\ inv[i].pc = "handler"
    /\ inv' = [inv EXCEPT ![i] =
                 IF inv[i].onRequest
                 THEN [inv[i] EXCEPT !.pc = "middleware", !.handlerValue = value]
                 ELSE Finish([inv[i] EXCEPT !.handlerValue = value, !.awaited = value],
                             value, hasBuffer)]
    /\ UNCHANGED <<reqProps, hasBuffer>>

\* The handler throws: the continuation rethrows to the chain, which lets the
\* error through, or line 127 rethrows.
HandlerThrows(i, e) ==
    /\ inv[i].pc = "handler"
    /\ inv' = [inv EXCEPT ![i] = Propagate(inv[i], "handler", e)]
    /\ UNCHANGED <<reqProps, hasBuffer>>

\* The chain resolves with the continuation's value.
MiddlewareReturnsNext(i) ==
    /\ inv[i].pc = "middleware"
    /\ inv[i].nextCalls > 0
    /\ inv' = [inv EXCEPT ![i] = Finish([inv[i] EXCEPT !.awaited = inv[i].handlerValue],
                                        inv[i].handlerValue, hasBuffer)]
    /\ UNCHANGED <<reqProps, hasBuffer>>

\* The chain resolves with a value of its own (a short-circuit, or a replacement
\* of the continuation's value).
MiddlewareReturnsOwn(i, value) ==
    /\ inv[i].pc = "middleware"
    /\ inv' = [inv EXCEPT ![i] = Finish([inv[i] EXCEPT !.awaited = value], value, hasBuffer)]
    /\ UNCHANGED <<reqProps, hasBuffer>>

\* The chain throws.
MiddlewareThrows(i, e) ==
    /\ inv[i].pc = "middleware"
    /\ inv' = [inv EXCEPT ![i] = Propagate(inv[i], "middleware", e)]
    /\ UNCHANGED <<reqProps, hasBuffer>>

\* ------------------------------------------------------------ input domains
RouteData == {[route |-> p, prerender |-> b] : p \in Routes, b \in BOOLEAN}

SampleBody == [kind |-> "string", data |-> <<97>>]

\* Native responses a handler or a chain may build; `obj` names the object.
NativeResponses(obj) ==
    {MkResponse(obj, status, [EmptyHeaders EXCEPT !["X-Astro-Encoding"] = e], own, SampleBody) :
        status \in {200, 404}, e \in {Absent, "", "latin1"},
        own \in {<<>>, <<[name |-> "own", ctx |-> 0]>>}}
    \cup {ResponseWithEncoding(obj, 200, EmptyHeaders, SampleBody, "utf16le"),
          redirect(obj, 0), redirect(obj, 301)}

\* Legacy objects { body, encoding?, headers? }.
LegacyObject(body, hasHeaders, encoding) ==
    [shape |-> "object", body |-> body, hasHeaders |-> hasHeaders, encoding |-> encoding]

LegacyObjects ==
    {LegacyObject(b, h, e) : b \in StringBodies \cup ByteBodies, h \in BOOLEAN,
                             e \in LegacyEncodings}

HandlerResults == NativeResponses("handlerResponse") \cup LegacyObjects

MiddlewareOwnResults ==
    {MkResponse("middlewareResponse", 403, EmptyHeaders, <<>>, SampleBody),
     LegacyObject(SampleBody, FALSE, "latin1")}

SmallResults ==
    {MkResponse("handlerResponse", 200, EmptyHeaders, <<>>, SampleBody),
     LegacyObject(SampleBody, FALSE, NoProperty)}

Env(ssr, site, adapterName) == [ssr |-> ssr, site |-> site, adapterName |-> adapterName]

PipelineEnvs == {Env(ssr, site, "node") : ssr \in BOOLEAN, site \in {"https://example.com", "not a url"}}

AdapterNames == {UndefinedValue, "", "node"}
ContextEnvs == {Env(TRUE, site, a) : site \in Sites, a \in AdapterNames}

ClientAddresses == {NoProperty, UndefinedValue, "", "203.0.113.7"}

FreshRequest(address) == [locals |-> UndefinedLocals, clientAddress |-> address]

\* ---------------------------------------------------------- specifications
\* One invocation, every shape of raw result, with and without a chain.
Init ==
    /\ inv = [i \in Invocations |-> IdleInvocation]
    /\ reqProps = [q \in Requests |-> FreshRequest(NoProperty)]
    /\ hasBuffer \in BOOLEAN

Next ==
    \E i \in {1} :
        \/ \E env \in PipelineEnvs, route \in RouteData, onRequest \in BOOLEAN :
               callEndpoint(i, env, route, "reqA", onRequest)
        \/ \E name \in CookieNames : SetCookie(i, name)
        \/ MiddlewareCallsNext(i)
        \/ \E value \in HandlerResults : HandlerReturns(i, value)
        \/ HandlerThrows(i, "HandlerError")
        \/ MiddlewareReturnsNext(i)
        \/ \E value \in MiddlewareOwnResults : MiddlewareReturnsOwn(i, value)
        \/ MiddlewareThrows(i, "MiddlewareError")

Spec == Init /\ [][Next]_vars

\* One invocation whose handler uses the guarded accessors of its context.
ContextInit ==
    /\ inv = [i \in Invocations |-> IdleInvocation]
    /\ \E a \in ClientAddresses : reqProps = [q \in Requests |-> FreshRequest(a)]
    /\ hasBuffer = TRUE

ContextNext ==
    \E i \in {1} :
        \/ \E env \in ContextEnvs, route \in RouteData :
               callEndpoint(i, env, route, "reqA", FALSE)
        \/ \E t \in JsTypes : SetLocals(i, LocalsValue(t, inv[i].context.id))
        \/ ReadLocals(i)
        \/ ReadClientAddress(i)
        \/ \E value \in SmallResults : HandlerReturns(i, value)
        \/ \E e \in {"HandlerError", "LocalsNotAnObject"} : HandlerThrows(i, e)

ContextSpec == ContextInit /\ [][ContextNext]_vars

\* Several invocations interleaved at the suspension points of their handlers.
ConcurrentInit ==
    /\ inv = [i \in Invocations |-> IdleInvocation]
    /\ reqProps = [q \in Requests |-> FreshRequest(NoProperty)]
    /\ hasBuffer = TRUE

ConcurrentNext ==
    \E i \in Invocations :
        \/ \E request \in Requests :
               callEndpoint(i, Env(TRUE, UndefinedValue, "node"),
                            [route |-> "/api/ping", prerender |-> FALSE], request, FALSE)
        \/ SetCookie(i, "sid")
        \/ SetLocals(i, LocalsValue("object", inv[i].context.id))
        \/ ReadLocals(i)
        \/ \E value \in SmallResults : HandlerReturns(i, value)

ConcurrentSpec == ConcurrentInit /\ [][ConcurrentNext]_vars

\* ------------------------------------------------------------------ claims
Returned(i) == inv[i].pc = "returned"
ReturnedNative(i) == Returned(i) /\ inv[i].raw.shape = "Response"
ReturnedLegacy(i) == Returned(i) /\ inv[i].raw.shape = "object"

\* C1: every invocation that returns a response has attached the cookies exactly
\* once, as its last step before the return, to the response it returns and from
\* the jar of the context the chain and the handler were given; the response
\* carries each cookie of that jar once, on both branches.
C1_AttachExactlyOnce ==
    \A i \in Invocations : Returned(i) =>
        LET r == inv[i]
            n == Len(r.log)
            own == IF r.raw.shape = "Response" THEN r.raw.setCookie ELSE <<>>
        IN  /\ Count(r.log, "attachCookiesToResponse") = 1
            /\ n >= 2
            /\ r.log[n] = Event("return", r.result.obj, 0)
            /\ r.log[n - 1] = Event("attachCookiesToResponse", r.result.obj, r.context.id)
            /\ r.onRequest => r.mwCtx = r.context.id
            /\ r.handlerCalls > 0 => r.handlerCtx = r.context.id
            /\ r.result.setCookie = own \o r.cookies
            /\ \A k \in 1..Len(r.cookies) : r.cookies[k].ctx = r.context.id

C1_Witness ==
    \E i \in Invocations :
        /\ ReturnedLegacy(i)
        /\ inv[i].onRequest
        /\ inv[i].handlerCalls > 0
        /\ Len(inv[i].cookies) = 2
        /\ Len(inv[i].result.setCookie) = 2

\* C2: for a legacy object the body is resolved in this order: a byte body is
\* passed through; else with a byte-buffer facility the string is converted with
\* the declared encoding; else an unspecified or UTF-8 encoding is UTF-8 encoded;
\* else the string is passed through. Content-Length is the byte length of the
\* resolved body in the first three cases and absent exactly in the fourth.
C2_BodyPrecedence ==
    \A i \in Invocations : ReturnedLegacy(i) =>
        LET body == inv[i].raw.body
            enc == inv[i].raw.encoding
            res == inv[i].result
            bytes(b) == [kind |-> "Uint8Array", data |-> b]
            length == res.headers["Content-Length"]
            utf8 == enc \in {NoProperty, UndefinedValue, "utf8", "utf-8"}
        IN  /\ body.kind = "Uint8Array" =>
                 res.body = body /\ length = ToString(Len(body.data))
            /\ body.kind = "string" /\ hasBuffer =>
                 /\ res.body = bytes(Buffer_from(body.data, enc))
                 /\ length = ToString(Len(res.body.data))
            /\ body.kind = "string" /\ ~hasBuffer /\ utf8 =>
                 /\ res.body = bytes(encoder_encode(body.data))
                 /\ length = ToString(Len(res.body.data))
            /\ body.kind = "string" /\ ~hasBuffer /\ ~utf8 =>
                 res.body = body /\ length = Absent
            /\ length = Absent <=> (body.kind = "string" /\ ~hasBuffer /\ ~utf8)

C2_Witness ==
    \E i \in Invocations :
        /\ ReturnedLegacy(i)
        /\ ~hasBuffer
        /\ inv[i].raw.encoding = "latin1"
        /\ inv[i].raw.body = [kind |-> "string", data |-> <<8364, 97>>]
        /\ inv[i].result.body = inv[i].raw.body
        /\ inv[i].result.headers["Content-Length"] = Absent

\* What C5 says of the returned response: it is the handler's own object, with
\* status, body and headers untouched, the jar's cookies merged in, and no
\* response constructed.
NativeFrame(i) ==
    LET r == inv[i]
    IN  /\ r.result.obj = r.raw.obj
        /\ r.result.status = r.raw.status
        /\ r.result.body = r.raw.body
        /\ r.result.headers = r.raw.headers
        /\ r.result.setCookie = r.raw.setCookie \o r.cookies
        /\ Count(r.log, "new Response") = 0

\* C5 as stated: one warning exactly when isEndpointSSR holds and the response
\* carries the encoding-marker header.
C5_AsStated ==
    \A i \in Invocations : ReturnedNative(i) =>
        /\ NativeFrame(i)
        /\ Len(Warnings(inv[i].log)) =
              IF inv[i].ssr /\ ~inv[i].route.prerender
                 /\ inv[i].raw.headers["X-Astro-Encoding"] # Absent
              THEN 1 ELSE 0

\* C5, amended: a native Response is returned as the same object, unchanged but
\* for the merged cookies, and one warning is emitted exactly when isEndpointSSR
\* holds and the encoding-marker header has a non-empty value.
C5_NativeUnchanged ==
    \A i \in Invocations : ReturnedNative(i) =>
        /\ NativeFrame(i)
        /\ Len(Warnings(inv[i].log)) =
              IF inv[i].ssr /\ ~inv[i].route.prerender
                 /\ inv[i].raw.headers["X-Astro-Encoding"] \notin {Absent, ""}
              THEN 1 ELSE 0

C5_Witness ==
    \E i \in Invocations :
        /\ ReturnedNative(i)
        /\ inv[i].ssr /\ ~inv[i].route.prerender
        /\ inv[i].raw.headers["X-Astro-Encoding"] = "utf16le"
        /\ inv[i].cookies # <<>>
        /\ Warnings(inv[i].log) = <<Warn("ssr", "ResponseWithEncoding")>>

\* What C6 says of an invocation in which context construction, the chain or the
\* handler threw: it failed with that very error, unwrapped, with no response,
\* no warning and no cookie attachment.
C6_FailedState ==
    \A i \in Invocations : inv[i].thrown # "" =>
        LET r == inv[i]
        IN  /\ r.pc = "failed"
            /\ r.thrown \in {"createAPIContext:" \o r.error, "middleware:" \o r.error,
                             "handler:" \o r.error}
            /\ r.result = NoResponse
            /\ Warnings(r.log) = <<>>
            /\ Count(r.log, "attachCookiesToResponse") = 0
            /\ Count(r.log, "return") = 0

\* C6: the failed state is as above in every reachable state, and a failed
\* invocation takes no further step (no retry, no substitute response).
C6_ErrorsPropagate ==
    /\ []C6_FailedState
    /\ [][\A i \in Invocations : inv[i].pc = "failed" => inv'[i] = inv[i]]_vars

C6_Witness ==
    \E i \in Invocations :
        /\ inv[i].pc = "failed"
        /\ inv[i].error = "HandlerError"
        /\ inv[i].onRequest
        /\ inv[i].nextCalls = 2
        /\ inv[i].cookies # <<>>

\* C8: with a middleware the chain gets the context the handler gets, the
\* handler runs once per call of the continuation and not otherwise, and the
\* value the chain resolves with is the raw result; without one the handler runs
\* exactly once and its value is the raw result.
C8_ChainAndHandler ==
    \A i \in Invocations :
        LET r == inv[i]
        IN  /\ r.onRequest /\ r.pc # "idle" /\ r.context # NoContext =>
                 /\ r.mwCtx = r.context.id
                 /\ r.handlerCalls = r.nextCalls
                 /\ r.handlerCalls > 0 => r.handlerCtx = r.mwCtx
            /\ ~r.onRequest => r.nextCalls = 0 /\ r.mwCtx = 0
            /\ Returned(i) =>
                 /\ r.raw = r.awaited
                 /\ r.result = Normalize(r.awaited, r.context.id, r.cookies, r.ssr, r.route,
                                         hasBuffer, "constructed").response
                 /\ ~r.onRequest => r.handlerCalls = 1 /\ r.awaited = r.handlerValue

C8_Witness ==
    \E i \in Invocations :
        /\ Returned(i)
        /\ inv[i].onRequest
        /\ inv[i].nextCalls = 2
        /\ inv[i].handlerValue.shape = "object"
        /\ inv[i].raw.shape = "Response"
        /\ inv[i].result.obj = "middlewareResponse"

\* The observable part of a response: status, headers and body.
Outcome(response) ==
    [status |-> response.status, headers |-> response.headers,
     setCookie |-> response.setCookie, body |-> response.body]

\* C9: a run that differs from the one made only in the server-rendering mode
\* and the prerender flag returns a response with the same status, headers and
\* body; only its warnings differ.
C9_WarningsDoNotAlterOutcome ==
    \A i \in Invocations : Returned(i) =>
        \A ssr \in BOOLEAN, prerender \in BOOLEAN :
            LET r == inv[i]
                other == Normalize(r.raw, r.context.id, r.cookies, ssr,
                                   [r.route EXCEPT !.prerender = prerender], hasBuffer,
                                   "constructed")
            IN  /\ Outcome(other.response) = Outcome(r.result)
                /\ SelectSeq(other.log, LAMBDA ev : ~IsWarning(ev))
                     = SelectSeq(r.log, LAMBDA ev : ~IsWarning(ev) /\ ev.e \in
                          {"new Response", "attachCookiesToResponse", "return"})

C9_Witness ==
    \E i \in Invocations :
        /\ ReturnedLegacy(i)
        /\ inv[i].ssr /\ ~inv[i].route.prerender
        /\ inv[i].raw.encoding = "latin1"
        /\ inv[i].raw.hasHeaders
        /\ inv[i].result.headers["X-Astro-Encoding"] = "latin1"
        /\ Len(Warnings(inv[i].log)) = 3
        /\ Len(Warnings(Normalize(inv[i].raw, inv[i].context.id, inv[i].cookies, FALSE,
                                  inv[i].route, hasBuffer, "constructed").log)) = 1

\* C10 as stated: the encoding warning is emitted exactly when isEndpointSSR
\* holds and the object carries an encoding property.
C10_AsStated ==
    \A i \in Invocations : ReturnedLegacy(i) =>
        LET r == inv[i]
            endpointSSR == r.ssr /\ ~r.route.prerender
        IN  /\ WarnCount(r.log, "deprecated") = 1
            /\ WarnCount(r.log, "headers") = (IF endpointSSR /\ r.raw.hasHeaders THEN 1 ELSE 0)
            /\ WarnCount(r.log, "encoding") =
                 (IF endpointSSR /\ r.raw.encoding # NoProperty THEN 1 ELSE 0)
            /\ Len(Warnings(r.log)) = WarnCount(r.log, "deprecated")
                 + WarnCount(r.log, "headers") + WarnCount(r.log, "encoding")

\* C10, amended: for a legacy object the deprecation warning is emitted once
\* whatever the mode, the headers warning exactly when isEndpointSSR holds and
\* the object has a headers property, the encoding warning exactly when
\* isEndpointSSR holds and the object's encoding has a value (not undefined, not
\* empty); isEndpointSSR is server-rendering mode on a route not pre-rendered.
C10_LegacyWarnings ==
    \A i \in Invocations : ReturnedLegacy(i) =>
        LET r == inv[i]
            endpointSSR == r.ssr /\ ~r.route.prerender
        IN  /\ WarnCount(r.log, "deprecated") = 1
            /\ WarnCount(r.log, "headers") = (IF endpointSSR /\ r.raw.hasHeaders THEN 1 ELSE 0)
            /\ WarnCount(r.log, "encoding") =
                 (IF endpointSSR /\ r.raw.encoding \notin {NoProperty, UndefinedValue, ""}
                  THEN 1 ELSE 0)
            /\ Len(Warnings(r.log)) = WarnCount(r.log, "deprecated")
                 + WarnCount(r.log, "headers") + WarnCount(r.log, "encoding")

C10_Witness ==
    \E i \in Invocations :
        /\ ReturnedLegacy(i)
        /\ inv[i].ssr /\ ~inv[i].route.prerender
        /\ inv[i].raw.encoding = UndefinedValue
        /\ inv[i].raw.hasHeaders
        /\ Warnings(inv[i].log) = <<Warn("astro", "deprecated"), Warn("ssr", "headers")>>

\* The values C3 calls non-objects (the primitives, undefined and null) and
\* objects. A function is left out of both: typeof gives "function" for it.
NonObjectTypes == {"undefined", "null", "boolean", "number", "string", "symbol", "bigint"}
ObjectTypes == {"object", "array"}

\* C3: assigning a non-object value to locals fails with LocalsNotAnObject and
\* leaves the stored locals unchanged; assigning an object succeeds and locals
\* then reads as that value.
C3_AsStated ==
    \A i \in Invocations : inv[i].lastOp.op = "setLocals" =>
        LET o == inv[i].lastOp
        IN  /\ o.arg.type \in NonObjectTypes =>
                 o.threw = "LocalsNotAnObject" /\ o.after = o.before
            /\ o.arg.type \in ObjectTypes => o.threw = "" /\ o.after = o.arg

\* C4 as stated: without a marker the read fails with ClientAddressNotAvailable
\* whenever an adapter name was given and with StaticClientAddressNotAvailable
\* whenever none was; with a marker it returns the marker's value.
C4_AsStated ==
    \A i \in Invocations : inv[i].lastOp.op = "clientAddress" =>
        LET o == inv[i].lastOp
            c == inv[i].context
            marker == reqProps[c.request].clientAddress
        IN  /\ marker = NoProperty /\ c.adapterName # UndefinedValue =>
                 o.threw = "ClientAddressNotAvailable" /\ o.message = c.adapterName
            /\ marker = NoProperty /\ c.adapterName = UndefinedValue =>
                 o.threw = "StaticClientAddressNotAvailable"
            /\ marker # NoProperty => o.threw = "" /\ o.value = marker

\* C4, amended: without a marker the read fails with ClientAddressNotAvailable,
\* naming the adapter, whenever a non-empty adapter name was given, and with
\* StaticClientAddressNotAvailable whenever the name is missing or empty; with a
\* marker it returns the marker's value verbatim, whatever the value and the name.
C4_ClientAddress ==
    \A i \in Invocations : inv[i].lastOp.op = "clientAddress" =>
        LET o == inv[i].lastOp
            c == inv[i].context
            marker == reqProps[c.request].clientAddress
        IN  /\ marker = NoProperty /\ c.adapterName \notin {UndefinedValue, ""} =>
                 o.threw = "ClientAddressNotAvailable" /\ o.message = c.adapterName
            /\ marker = NoProperty /\ c.adapterName \in {UndefinedValue, ""} =>
                 o.threw = "StaticClientAddressNotAvailable"
            /\ marker # NoProperty => o.threw = "" /\ o.value = marker

C4_Witness ==
    \E i \in Invocations :
        /\ inv[i].lastOp.op = "clientAddress"
        /\ inv[i].context.adapterName = ""
        /\ reqProps[inv[i].context.request].clientAddress = NoProperty
        /\ inv[i].lastOp.threw = "StaticClientAddressNotAvailable"

\* C7: under any interleaving, locals read through a context were assigned
\* through a context over the same request object, contexts over the same
\* request object read the same locals, and the cookies of a jar and of a final
\* response were set through that invocation's own context.
C7_RequestScoped ==
    /\ \A i \in Invocations : inv[i].lastOp.op = "getLocals" /\ inv[i].lastOp.after.by # 0 =>
           inv[inv[i].lastOp.after.by].context.request = inv[i].context.request
    /\ \A q \in Requests : reqProps[q].locals.by # 0 =>
           inv[reqProps[q].locals.by].context.request = q
    /\ \A i, j \in Invocations :
           /\ inv[i].context # NoContext
           /\ inv[j].context # NoContext
           /\ inv[i].context.request = inv[j].context.request
           => getLocals(inv[i].context, reqProps) = getLocals(inv[j].context, reqProps)
    /\ \A i \in Invocations :
           /\ \A k \in 1..Len(inv[i].cookies) : inv[i].cookies[k].ctx = i
           /\ Returned(i) => inv[i].result.setCookie = inv[i].cookies

C7_Witness ==
    \E i, j \in Invocations :
        /\ inv[i].context # NoContext /\ inv[j].context # NoContext
        /\ inv[i].context.request # inv[j].context.request
        /\ reqProps[inv[i].context.request].locals = LocalsValue("object", i)
        /\ inv[j].lastOp.op = "getLocals" /\ inv[j].lastOp.after = UndefinedLocals
        /\ Returned(i) /\ Returned(j)
        /\ inv[i].cookies # <<>> /\ inv[j].cookies = <<>>

\* C7, the sharing half: a value assigned through one context has been read
\* through another context over the same request object.
C7_SharedWitness ==
    \E i, j \in Invocations :
        /\ i # j
        /\ inv[i].context.request = inv[j].context.request
        /\ inv[j].lastOp.op = "getLocals"
        /\ inv[j].lastOp.after = LocalsValue("object", i)

====
